---------------------------- MODULE Spec2Model ----------------------------
(***************************************************************************)
(* Model of the Moonstream Entity JavaScript client                        *)
(* (clients/javascript/src/index.ts): the EntityClient class, its seven    *)
(* asynchronous operations, and the two codec functions                    *)
(* createEntityRequest and parseEntityResponse.                            *)
(*                                                                         *)
(* JavaScript values are tagged records [t |-> <type>, v |-> <payload>].   *)
(* An object is an ordered sequence of <<key, value>> pairs with distinct  *)
(* keys (insertion order, as in the language).  Text that the code         *)
(* inspects character by character (the base URL, the search terms) is a   *)
(* sequence of one-character strings; all other text is a string.          *)
(***************************************************************************)
EXTENDS Integers, Sequences, FiniteSets, TLC

VARIABLES
    clients,        \* client instance -> its fields (accessToken, apiUrl)
    calls,          \* the invocations of client operations, in call order
    network,        \* the HTTP requests handed to fetch, in issue order
    entity,         \* codec: the domain Entity given to createEntityRequest
    requestData,    \* codec: the body createEntityRequest returned
    responseData,   \* codec: the wire entity a server echoes for that body
    parsedEntity,   \* codec: what parseEntityResponse made of the echo
    codecPc         \* codec: position in encode -> echo -> decode

clientVars == <<clients, calls, network>>
codecVars == <<entity, requestData, responseData, parsedEntity, codecPc>>
vars == <<clients, calls, network, entity, requestData, responseData,
          parsedEntity, codecPc>>

---------------------------------------------------------------------------
(* Bounds of the model.                                                    *)

MaxContentKeys == 2     \* keys in an Entity's content map
MaxTerms == 2           \* terms in each list given to search
MaxUrlLen == 4          \* characters of a base URL given to the constructor
MaxCalls == 2           \* invocations of client operations in one run

---------------------------------------------------------------------------
(* JavaScript values.                                                      *)

Undefined == [t |-> "undefined", v |-> <<>>]
Null == [t |-> "null", v |-> <<>>]
JStr(s) == [t |-> "string", v |-> s]
JBool(b) == [t |-> "boolean", v |-> b]
JNum(n) == [t |-> "number", v |-> n]
JArr(elems) == [t |-> "array", v |-> elems]
JObj(pairs) == [t |-> "object", v |-> pairs]

None == <<>>
Some(x) == <<x>>

(* Own keys of an object, given as its pair sequence. *)
Keys(pairs) == {pairs[i][1] : i \in DOMAIN pairs}

(* obj[k]: the value under key k, undefined when the key is absent. *)
Get(pairs, k) ==
    IF k \in Keys(pairs)
    THEN pairs[CHOOSE i \in DOMAIN pairs : pairs[i][1] = k][2]
    ELSE Undefined

(* obj[k] = val: an existing key keeps its position, a new key is appended. *)
Put(pairs, k, val) ==
    IF k \in Keys(pairs)
    THEN [i \in DOMAIN pairs |-> IF pairs[i][1] = k THEN <<k, val>> ELSE pairs[i]]
    ELSE Append(pairs, <<k, val>>)

(* value.k for a value that is not null or undefined. *)
Prop(val, k) == IF val.t = "object" THEN Get(val.v, k) ELSE Undefined

(* { ...target, ...source }: the own properties of source, in order, are  *)
(* written over target.  Spreading null or undefined adds nothing.         *)
RECURSIVE SpreadPairs(_, _)
SpreadPairs(target, src) ==
    IF src = <<>> THEN target
    ELSE SpreadPairs(Put(target, Head(src)[1], Head(src)[2]), Tail(src))

Spread(target, source) ==
    IF source.t = "object" THEN SpreadPairs(target, source.v) ELSE target

---------------------------------------------------------------------------
(* The codec.                                                              *)

FixedKeys == {"address", "blockchain", "name", "required_fields"}

MkEntity(address, blockchain, name, requiredFields, content) ==
    JObj(<< <<"address", address>>, <<"blockchain", blockchain>>,
            <<"name", name>>, <<"requiredFields", requiredFields>>,
            <<"content", content>> >>)

(* A bug the law of C1 must catch: the content spread first, so that the   *)
(* fixed keys win a collision.                                             *)
createEntityRequestFixedWins(e) ==
    JObj(SpreadPairs(
        IF Prop(e, "content").t = "object" THEN Prop(e, "content").v ELSE <<>>,
        << <<"address", Prop(e, "address")>>,
           <<"blockchain", Prop(e, "blockchain")>>,
           <<"name", Prop(e, "name")>>,
           <<"required_fields", Prop(e, "requiredFields")>> >>))

createEntityRequest(e) ==
    JObj(Spread(<< <<"address", Prop(e, "address")>>,
                   <<"blockchain", Prop(e, "blockchain")>>,
                   <<"name", Prop(e, "name")>>,
                   <<"required_fields", Prop(e, "requiredFields")>> >>,
                Prop(e, "content")))

(* A bug the round-trip law must catch: content read from the wrong field. *)
parseEntityResponseWrongField(wire) ==
    MkEntity(Prop(wire, "address"), Prop(wire, "blockchain"),
             Prop(wire, "name"), Prop(wire, "required_fields"),
             Prop(wire, "content"))

parseEntityResponse(wire) ==
    MkEntity(Prop(wire, "address"), Prop(wire, "blockchain"),
             Prop(wire, "name"), Prop(wire, "required_fields"),
             Prop(wire, "secondary_fields"))

(* The echoing server of the round-trip law: the four fixed keys of the    *)
(* body stay at top level, every other key goes under secondary_fields.    *)
Echo(body) ==
    JObj(<< <<"entity_id", JStr("e1")>>, <<"collection_id", JStr("c1")>>,
            <<"address", Prop(body, "address")>>,
            <<"blockchain", Prop(body, "blockchain")>>,
            <<"name", Prop(body, "name")>>,
            <<"required_fields", Prop(body, "required_fields")>>,
            <<"secondary_fields",
              JObj(SelectSeq(body.v, LAMBDA p : p[1] \notin FixedKeys))>> >>)

(* The Entity values the codec is exercised on. *)
ContentKeys == {"note", "name", "required_fields", "address"}
ContentValues == {JStr("override"), JBool(TRUE), JArr(<<JNum(1155), JNum(721)>>)}

ContentMaps ==
    UNION {{s \in [1..n -> ContentKeys \X ContentValues] :
                \A i, j \in 1..n : s[i][1] = s[j][1] => i = j} :
           n \in 0..MaxContentKeys}

RequiredFieldLists ==
    { <<>>,
      <<JObj(<< <<"owner", JStr("me")>> >>)>>,
      <<JObj(<< <<"dead", JBool(TRUE)>> >>), JObj(<< <<"owner", JStr("me")>> >>)>> }

Entities ==
    {MkEntity(JStr("0xdEaD"), JStr("ethereum"), JStr(n), JArr(rf), JObj(c)) :
        n \in {"Dead address", "Terminus"}, rf \in RequiredFieldLists,
        c \in ContentMaps}

---------------------------------------------------------------------------
(* Text.                                                                   *)

(* The string spelled by a sequence of one-character strings. *)
RECURSIVE Text(_)
Text(chars) == IF chars = <<>> THEN "" ELSE Head(chars) \o Text(Tail(chars))

(* Array.prototype.join on an array of strings. *)
RECURSIVE Join(_, _)
Join(strs, sep) ==
    IF strs = <<>> THEN ""
    ELSE IF Len(strs) = 1 THEN strs[1]
    ELSE strs[1] \o sep \o Join(Tail(strs), sep)

(* encodeURIComponent on one character: the unreserved characters stand    *)
(* for themselves, every other character becomes its %XX escape.           *)
EncodeChar(ch) ==
    CASE ch = "=" -> "%3D"
      [] ch = " " -> "%20"
      [] ch = "+" -> "%2B"
      [] ch = "&" -> "%26"
      [] ch = "/" -> "%2F"
      [] OTHER -> ch

RECURSIVE encodeURIComponent(_)
encodeURIComponent(chars) ==
    IF chars = <<>> THEN ""
    ELSE EncodeChar(Head(chars)) \o encodeURIComponent(Tail(chars))

(* JSON.stringify of a value that is not undefined.  An undefined member   *)
(* of an object is left out and an undefined element of an array is null.  *)
(* The strings of the model hold no character that needs escaping.         *)
RECURSIVE JSONstringify(_)
JSONstringify(val) ==
    CASE val.t = "string" -> "\"" \o val.v \o "\""
      [] val.t = "number" -> ToString(val.v)
      [] val.t = "boolean" -> (IF val.v THEN "true" ELSE "false")
      [] val.t = "array" ->
            "[" \o Join([i \in DOMAIN val.v |->
                            IF val.v[i].t = "undefined" THEN "null"
                            ELSE JSONstringify(val.v[i])], ",") \o "]"
      [] val.t = "object" ->
            LET kept == SelectSeq(val.v, LAMBDA p : p[2].t # "undefined")
            IN "{" \o Join([i \in DOMAIN kept |->
                              "\"" \o kept[i][1] \o "\":" \o JSONstringify(kept[i][2])],
                           ",") \o "}"
      [] OTHER -> "null"

---------------------------------------------------------------------------
(* EntityClient: construction.                                             *)

Clients == {"A", "B"}

DefaultApiUrl ==
    << "h","t","t","p","s",":","/","/","a","p","i",".","m","o","o","n","s","t",
       "r","e","a","m",".","t","o","/","e","n","t","i","t","y" >>

(* apiUrl.replace(/\/+$/, ""): the run of slashes that ends the text goes. *)
RECURSIVE StripTrailingSlashes(_)
StripTrailingSlashes(chars) ==
    IF chars # <<>> /\ chars[Len(chars)] = "/"
    THEN StripTrailingSlashes(SubSeq(chars, 1, Len(chars) - 1))
    ELSE chars

(* A bug C5 must catch: the pattern /\/$/, which removes one slash only.   *)
constructorOneSlash(accessToken, apiUrl) ==
    [constructed |-> TRUE,
     given |-> apiUrl,
     accessToken |-> accessToken,
     apiUrl |-> IF apiUrl # None /\ apiUrl[1] # <<>>
                THEN (IF apiUrl[1][Len(apiUrl[1])] = "/"
                      THEN SubSeq(apiUrl[1], 1, Len(apiUrl[1]) - 1)
                      ELSE apiUrl[1])
                ELSE DefaultApiUrl]

(* new EntityClient(accessToken, apiUrl?).  apiUrl is None when the        *)
(* argument is omitted; an empty string is falsy, like an omitted one.     *)
(* given keeps the argument the instance was constructed with.             *)
constructor(accessToken, apiUrl) ==
    [constructed |-> TRUE,
     given |-> apiUrl,
     accessToken |-> accessToken,
     apiUrl |-> IF apiUrl # None /\ apiUrl[1] # <<>>
                THEN StripTrailingSlashes(apiUrl[1])
                ELSE DefaultApiUrl]

Unconstructed ==
    [constructed |-> FALSE, given |-> None, accessToken |-> "", apiUrl |-> <<>>]

(* A bug C6 must catch: the token sent without its scheme.                 *)
authorizationValueBare(cl) == cl.accessToken

authorizationValue(cl) == "Bearer " \o cl.accessToken

standardHeaders(cl) ==
    ("Authorization" :> authorizationValue(cl))
        @@ ("Content-Type" :> "application/json")

---------------------------------------------------------------------------
(* EntityClient: the request each operation hands to fetch.                *)

NoArgs ==
    [name |-> "", collectionId |-> "", entityId |-> "", entity |-> Undefined,
     requiredFields |-> <<>>, content |-> <<>>, limit |-> None, offset |-> None]

Request(verb, url, headers, body) ==
    [verb |-> verb, url |-> url, headers |-> headers, body |-> body]

createCollectionRequest(cl, args) ==
    Request("POST", Text(cl.apiUrl) \o "/collections", standardHeaders(cl),
            Some(JSONstringify(JObj(<< <<"name", JStr(args.name)>> >>))))

listCollectionsRequest(cl, args) ==
    Request("GET", Text(cl.apiUrl) \o "/collections", standardHeaders(cl), None)

createEntityRequestOf(cl, args) ==
    Request("POST",
            Text(cl.apiUrl) \o "/collections/" \o args.collectionId \o "/entities",
            standardHeaders(cl),
            Some(JSONstringify(createEntityRequest(args.entity))))

getEntityRequest(cl, args) ==
    Request("GET",
            Text(cl.apiUrl) \o "/collections/" \o args.collectionId
                \o "/entities/" \o args.entityId,
            standardHeaders(cl), None)

deleteEntityRequest(cl, args) ==
    Request("DELETE",
            Text(cl.apiUrl) \o "/collections/" \o args.collectionId
                \o "/entities/" \o args.entityId,
            standardHeaders(cl), None)

updateEntityRequest(cl, args) ==
    Request("PUT",
            Text(cl.apiUrl) \o "/collections/" \o args.collectionId
                \o "/entities/" \o args.entityId,
            standardHeaders(cl),
            Some(JSONstringify(createEntityRequest(args.entity))))

(* limit || 10 and offset || 0: an omitted argument and 0 are falsy. *)
searchLimit(limit) == IF limit = None \/ limit[1] = 0 THEN 10 ELSE limit[1]

searchOffset(offset) == IF offset = None \/ offset[1] = 0 THEN 0 ELSE offset[1]

JErr(name, message) == [t |-> "error", v |-> <<name, message>>]

(* A bug C4 must catch: the offset is not checked.                         *)
searchArgumentErrorLimitOnly(limit, offset) ==
    IF searchLimit(limit) < 0
    THEN Some(JErr("Error", "limit must be non-negative"))
    ELSE None

(* The two checks at the head of search: the error thrown, if any.         *)
searchArgumentError(limit, offset) ==
    IF searchLimit(limit) < 0
    THEN Some(JErr("Error", "limit must be non-negative"))
    ELSE IF searchOffset(offset) < 0
    THEN Some(JErr("Error", "offset must be non-negative"))
    ELSE None

(* A bug C3 must catch: the segments joined as ordinary query parameters.  *)
queryParamsAmpersand(requiredFields, content) ==
    Join([i \in DOMAIN requiredFields |->
              "required_field=" \o encodeURIComponent(requiredFields[i])]
         \o [i \in DOMAIN content |->
              "secondary_field=" \o encodeURIComponent(content[i])],
         "&")

queryParams(requiredFields, content) ==
    Join([i \in DOMAIN requiredFields |->
              "required_field=" \o encodeURIComponent(requiredFields[i])]
         \o [i \in DOMAIN content |->
              "secondary_field=" \o encodeURIComponent(content[i])],
         "+")

(* A bug C11 must catch: the limit and the offset sent with the query.     *)
searchRequestWithPaging(cl, args) ==
    Request("GET",
            Text(cl.apiUrl) \o "/collections/" \o args.collectionId
                \o "/search?q=" \o queryParams(args.requiredFields, args.content)
                \o "&limit=" \o ToString(searchLimit(args.limit))
                \o "&offset=" \o ToString(searchOffset(args.offset)),
            standardHeaders(cl), None)

searchRequest(cl, args) ==
    Request("GET",
            Text(cl.apiUrl) \o "/collections/" \o args.collectionId
                \o "/search?q=" \o queryParams(args.requiredFields, args.content),
            standardHeaders(cl), None)

---------------------------------------------------------------------------
(* EntityClient: what each operation makes of the parsed response body.    *)

Return(val) == [kind |-> "return", value |-> val]
Throw(err) == [kind |-> "throw", value |-> err]

(* Reading a property of null or undefined throws. *)
Nullish(val) == val.t \in {"null", "undefined"}

createCollectionResult(raw) ==
    IF Nullish(raw) THEN Throw(JErr("TypeError", "property of null"))
    ELSE Return(JObj(<< <<"collectionId", Prop(raw, "collection_id")>>,
                        <<"name", Prop(raw, "name")>> >>))

listCollectionsResult(raw) ==
    IF Nullish(raw) THEN Throw(JErr("TypeError", "property of null"))
    ELSE LET cols == Prop(raw, "collections")
         IN IF cols.t # "array"
            THEN Throw(JErr("TypeError", "map is not a function"))
            ELSE IF \E i \in DOMAIN cols.v : Nullish(cols.v[i])
            THEN Throw(JErr("TypeError", "property of null"))
            ELSE Return(JArr([i \in DOMAIN cols.v |->
                    JObj(<< <<"collectionId", Prop(cols.v[i], "collection_id")>>,
                            <<"name", Prop(cols.v[i], "name")>> >>)]))

(* A bug C7 must catch: the decoded entities returned in reverse order.    *)
getEntityResultReversed(raw) ==
    IF raw.t # "array"
    THEN Throw(JErr("TypeError", "map is not a function"))
    ELSE IF \E i \in DOMAIN raw.v : Nullish(raw.v[i])
    THEN Throw(JErr("TypeError", "property of null"))
    ELSE Return(JArr([i \in DOMAIN raw.v |->
                        parseEntityResponse(raw.v[Len(raw.v) + 1 - i])]))

getEntityResult(raw) ==
    IF raw.t # "array"
    THEN Throw(JErr("TypeError", "map is not a function"))
    ELSE IF \E i \in DOMAIN raw.v : Nullish(raw.v[i])
    THEN Throw(JErr("TypeError", "property of null"))
    ELSE Return(JArr([i \in DOMAIN raw.v |-> parseEntityResponse(raw.v[i])]))

(* createEntity, updateEntity, deleteEntity and search return the parsed   *)
(* body as it is.                                                          *)
rawResult(raw) == Return(raw)

---------------------------------------------------------------------------
(* HTTP responses.  fetch resolves with a response whatever its status;    *)
(* response.json() resolves with the value the body denotes, or rejects    *)
(* when the body is not well-formed JSON.                                  *)

Response(status, body) ==
    [status |-> status, wellFormed |-> body.wellFormed, json |-> body.json]

Malformed == [wellFormed |-> FALSE, json |-> Undefined]
Json(val) == [wellFormed |-> TRUE, json |-> val]

Wire(entityId, address, name, requiredFields, secondaryFields) ==
    JObj(<< <<"entity_id", JStr(entityId)>>, <<"collection_id", JStr("c1")>>,
            <<"address", JStr(address)>>, <<"blockchain", JStr("ethereum")>>,
            <<"name", JStr(name)>>, <<"required_fields", JArr(requiredFields)>>,
            <<"secondary_fields", JObj(secondaryFields)>> >>)

Wire1 ==
    Wire("e1", "0xdEaD", "Dead address",
         <<JObj(<< <<"dead", JBool(TRUE)>> >>)>>,
         << <<"description", JStr("burn")>> >>)

Wire2 == Wire("e2", "0x062B", "Terminus", <<>>, << <<"proxy", JBool(TRUE)>> >>)

ErrorBody == JObj(<< <<"detail", JStr("Not Found")>> >>)

CollectionBody(id, name) ==
    JObj(<< <<"collection_id", JStr(id)>>, <<"name", JStr(name)>> >>)

CollectionsBody ==
    JObj(<< <<"collections",
              JArr(<<CollectionBody("c1", "My Ethereum addresses"),
                     CollectionBody("c2", "Deployers")>>)>> >>)

Statuses == {200, 404}

(* The body an endpoint answers with when all is well. *)
SuccessBody(op) ==
    CASE op = "createCollection" -> CollectionBody("c1", "My Ethereum addresses")
      [] op = "listCollections" -> CollectionsBody
      [] op \in {"getEntity", "search"} -> JArr(<<Wire1, Wire2>>)
      [] OTHER -> Wire1

(* What a server may answer a call of op: its success body, an error       *)
(* object, null, or text that is not JSON, each with either status.        *)
Responses(op) ==
    {Response(st, b) : st \in Statuses,
                       b \in {Malformed, Json(Null), Json(ErrorBody),
                              Json(SuccessBody(op))}}

(* An error object with status 200, or text that is not JSON with 404. *)
FewResponses == {Response(200, Json(ErrorBody)), Response(404, Malformed)}

Operations ==
    {"createCollection", "listCollections", "createEntity", "getEntity",
     "deleteEntity", "updateEntity", "search"}

---------------------------------------------------------------------------
(* The operations.  An async method runs synchronously up to its first     *)
(* await, so the checks of search, the building of the request and the     *)
(* call of fetch are one step; the two awaits (fetch, response.json())     *)
(* are the steps that follow.                                              *)

(* locals: in a call of search, the variables limit and offset after      *)
(* limit = limit || 10 and offset = offset || 0.                           *)
Call(c, op, args, pc, outcome) ==
    [client |-> c, op |-> op, args |-> args, pc |-> pc,
     locals |-> IF op = "search"
                THEN [limit |-> Some(searchLimit(args.limit)),
                      offset |-> Some(searchOffset(args.offset))]
                ELSE [limit |-> None, offset |-> None],
     response |-> None, outcome |-> outcome]

(* await fetch(request): the request is handed to fetch, the call waits. *)
Fetch(c, op, args, request) ==
    /\ calls' = Append(calls, Call(c, op, args, "awaitFetch", None))
    /\ network' = Append(network, [call |-> Len(calls) + 1, request |-> request])

CanCall(c) == clients[c].constructed /\ Len(calls) < MaxCalls

createCollection(c, name) ==
    /\ CanCall(c)
    /\ LET args == [NoArgs EXCEPT !.name = name]
       IN Fetch(c, "createCollection", args,
                createCollectionRequest(clients[c], args))
    /\ UNCHANGED <<clients, codecVars>>

(* A bug C10 must catch: the operation keeps the URL it built in apiUrl.   *)
listCollectionsMovesBase(c) ==
    /\ CanCall(c)
    /\ Fetch(c, "listCollections", NoArgs, listCollectionsRequest(clients[c], NoArgs))
    /\ clients' = [clients EXCEPT ![c].apiUrl =
                      @ \o <<"/","c","o","l","l","e","c","t","i","o","n","s">>]
    /\ UNCHANGED codecVars

listCollections(c) ==
    /\ CanCall(c)
    /\ Fetch(c, "listCollections", NoArgs, listCollectionsRequest(clients[c], NoArgs))
    /\ UNCHANGED <<clients, codecVars>>

createEntity(c, collectionId, e) ==
    /\ CanCall(c)
    /\ LET args == [NoArgs EXCEPT !.collectionId = collectionId, !.entity = e]
       IN Fetch(c, "createEntity", args, createEntityRequestOf(clients[c], args))
    /\ UNCHANGED <<clients, codecVars>>

getEntity(c, collectionId, entityId) ==
    /\ CanCall(c)
    /\ LET args == [NoArgs EXCEPT !.collectionId = collectionId,
                                  !.entityId = entityId]
       IN Fetch(c, "getEntity", args, getEntityRequest(clients[c], args))
    /\ UNCHANGED <<clients, codecVars>>

deleteEntity(c, collectionId, entityId) ==
    /\ CanCall(c)
    /\ LET args == [NoArgs EXCEPT !.collectionId = collectionId,
                                  !.entityId = entityId]
       IN Fetch(c, "deleteEntity", args, deleteEntityRequest(clients[c], args))
    /\ UNCHANGED <<clients, codecVars>>

updateEntity(c, collectionId, entityId, e) ==
    /\ CanCall(c)
    /\ LET args == [NoArgs EXCEPT !.collectionId = collectionId,
                                  !.entityId = entityId, !.entity = e]
       IN Fetch(c, "updateEntity", args, updateEntityRequest(clients[c], args))
    /\ UNCHANGED <<clients, codecVars>>

search(c, collectionId, requiredFields, content, limit, offset) ==
    /\ CanCall(c)
    /\ LET args == [NoArgs EXCEPT !.collectionId = collectionId,
                                  !.requiredFields = requiredFields,
                                  !.content = content,
                                  !.limit = limit, !.offset = offset]
           err == searchArgumentError(limit, offset)
       IN IF err # None
          THEN /\ calls' = Append(calls, Call(c, "search", args, "rejected",
                                              Some(Throw(err[1]))))
               /\ network' = network
          ELSE Fetch(c, "search", args, searchRequest(clients[c], args))
    /\ UNCHANGED <<clients, codecVars>>

(* The promise of fetch resolves: any status does. *)
FetchResolve(i, resp) ==
    /\ i \in DOMAIN calls
    /\ calls[i].pc = "awaitFetch"
    /\ calls' = [calls EXCEPT ![i].pc = "awaitJson", ![i].response = Some(resp)]
    /\ UNCHANGED <<clients, network, codecVars>>

(* A bug C8 must catch: the request sent again after a transport failure.  *)
FetchRejectRetry(i) ==
    /\ i \in DOMAIN calls
    /\ calls[i].pc = "awaitFetch"
    /\ Len(SelectSeq(network, LAMBDA n : n.call = i)) < 2
    /\ network' = Append(network, network[CHOOSE k \in DOMAIN network :
                                                network[k].call = i])
    /\ UNCHANGED <<clients, calls, codecVars>>

(* The promise of fetch rejects (a transport failure): no operation        *)
(* catches it, so the operation's own promise rejects with it.             *)
FetchReject(i) ==
    /\ i \in DOMAIN calls
    /\ calls[i].pc = "awaitFetch"
    /\ calls' = [calls EXCEPT ![i].pc = "rejected",
                              ![i].outcome = Some(Throw(JErr("TypeError", "fetch failed")))]
    /\ UNCHANGED <<clients, network, codecVars>>

(* response.json() rejects: the body is not JSON. *)
JsonReject(i) ==
    /\ i \in DOMAIN calls
    /\ calls[i].pc = "awaitJson"
    /\ ~calls[i].response[1].wellFormed
    /\ calls' = [calls EXCEPT ![i].pc = "rejected",
                              ![i].outcome = Some(Throw(JErr("SyntaxError", "not JSON")))]
    /\ UNCHANGED <<clients, network, codecVars>>

(* A bug C9 must catch: a status of 400 or more turned into a failure.     *)
OutcomeChecksStatus(op, resp) ==
    IF resp.status >= 400 THEN Throw(JErr("Error", "HTTP error"))
    ELSE CASE op = "createCollection" -> createCollectionResult(resp.json)
           [] op = "listCollections" -> listCollectionsResult(resp.json)
           [] op = "getEntity" -> getEntityResult(resp.json)
           [] OTHER -> rawResult(resp.json)

(* What the rest of the operation makes of a response whose body parsed.   *)
Outcome(op, resp) ==
    CASE op = "createCollection" -> createCollectionResult(resp.json)
      [] op = "listCollections" -> listCollectionsResult(resp.json)
      [] op = "getEntity" -> getEntityResult(resp.json)
      [] OTHER -> rawResult(resp.json)

(* response.json() resolves and the operation runs to its end. *)
JsonResolve(i) ==
    /\ i \in DOMAIN calls
    /\ calls[i].pc = "awaitJson"
    /\ calls[i].response[1].wellFormed
    /\ LET out == Outcome(calls[i].op, calls[i].response[1])
       IN calls' = [calls EXCEPT
                        ![i].pc = IF out.kind = "throw" THEN "rejected" ELSE "resolved",
                        ![i].outcome = Some(out)]
    /\ UNCHANGED <<clients, network, codecVars>>

(* The steps that follow the call of fetch; responses[op] are the          *)
(* responses a server may give a call of op.                               *)
Settle(responses) ==
    \/ \E i \in DOMAIN calls : \E resp \in responses[calls[i].op] :
            FetchResolve(i, resp)
    \/ \E i \in DOMAIN calls : FetchReject(i)
    \/ \E i \in DOMAIN calls : JsonReject(i)
    \/ \E i \in DOMAIN calls : JsonResolve(i)

(* new EntityClient(accessToken, apiUrl?) *)
Construct(c, accessToken, apiUrl) ==
    /\ ~clients[c].constructed
    /\ clients' = [clients EXCEPT ![c] = constructor(accessToken, apiUrl)]
    /\ UNCHANGED <<calls, network, codecVars>>

---------------------------------------------------------------------------
(* Specifications.                                                         *)

CodecIdle ==
    /\ entity = Undefined
    /\ requestData = Undefined
    /\ responseData = Undefined
    /\ parsedEntity = Undefined
    /\ codecPc = "idle"

ClientIdle ==
    /\ clients = [c \in Clients |-> Unconstructed]
    /\ calls = <<>>
    /\ network = <<>>

ExampleUrl == <<"h","t","t","p","s",":","/","/","x","/","y","/","/","/">>

(* Two instances: A on the default base URL, B on a base URL of its own. *)
TwoClients ==
    /\ clients = [c \in Clients |->
                    IF c = "A" THEN constructor("tokenA", None)
                    ELSE constructor("tokenB", Some(ExampleUrl))]
    /\ calls = <<>>
    /\ network = <<>>

TermA == <<"a", "=", "1">>
TermB == <<"b", "=", "2">>
TermC == <<"x", " ", "+">>

Entity1 ==
    MkEntity(JStr("0xdEaD"), JStr("ethereum"), JStr("Dead address"),
             JArr(<<JObj(<< <<"dead", JBool(TRUE)>> >>)>>),
             JObj(<< <<"description", JStr("burn")>> >>))

(* Spec: both instances constructed, up to MaxCalls calls in flight at     *)
(* once, every operation; a response is an error object with status 200    *)
(* or a body that is not JSON with status 404.                             *)
Init == TwoClients /\ CodecIdle

Next ==
    \/ \E c \in Clients : createCollection(c, "My Ethereum addresses")
    \/ \E c \in Clients : listCollections(c)
    \/ \E c \in Clients : createEntity(c, "c1", Entity1)
    \/ \E c \in Clients : getEntity(c, "c1", "e1")
    \/ \E c \in Clients : deleteEntity(c, "c1", "e1")
    \/ \E c \in Clients : updateEntity(c, "c1", "e1", Entity1)
    \/ \E c \in Clients, limit \in {None, Some(-1)}, offset \in {None, Some(-1)} :
            search(c, "c1", <<TermA>>, <<TermB>>, limit, offset)
    \/ Settle([op \in Operations |-> FewResponses])

Spec == Init /\ [][Next]_vars

(* SpecResponses: the calls of one instance, every operation, every        *)
(* response.                                                               *)
NextResponses ==
    \/ createCollection("A", "My Ethereum addresses")
    \/ listCollections("A")
    \/ createEntity("A", "c1", Entity1)
    \/ getEntity("A", "c1", "e1")
    \/ deleteEntity("A", "c1", "e1")
    \/ updateEntity("A", "c1", "e1", Entity1)
    \/ search("A", "c1", <<TermA>>, <<TermB>>, None, None)
    \/ Settle([op \in Operations |-> Responses(op)])

SpecResponses == Init /\ [][NextResponses]_vars

(* SpecSearch: one call of search, over lists of terms, limits, offsets.   *)
TermLists == UNION {[1..n -> {TermA, TermB, TermC}] : n \in 0..MaxTerms}

Limits == {None, Some(-1), Some(0), Some(5)}

NextSearch ==
    \/ /\ calls = <<>>
       /\ \E c \in Clients, requiredFields \in TermLists, content \in TermLists,
             limit \in Limits, offset \in Limits :
                search(c, "c1", requiredFields, content, limit, offset)
    \/ Settle([op \in Operations |-> Responses(op)])

SpecSearch == Init /\ [][NextSearch]_vars

(* SpecCtor: the constructor over base URLs, then one call on the          *)
(* instance.                                                               *)
UrlChars == {"x", ":", "/"}

UrlArguments ==
    {None, Some(ExampleUrl)}
        \cup {Some(u) : u \in UNION {[1..n -> UrlChars] : n \in 0..MaxUrlLen}}

InitCtor == ClientIdle /\ CodecIdle

NextCtor ==
    \/ \E apiUrl \in UrlArguments : Construct("A", "tokenA", apiUrl)
    \/ calls = <<>> /\ listCollections("A")
    \/ Settle([op \in Operations |-> Responses(op)])

SpecCtor == InitCtor /\ [][NextCtor]_vars

(* SpecCodec: createEntityRequest, the echoing server, parseEntityResponse *)
(* over the Entity values.                                                 *)
InitCodec ==
    /\ TwoClients
    /\ entity \in Entities
    /\ requestData = Undefined
    /\ responseData = Undefined
    /\ parsedEntity = Undefined
    /\ codecPc = "entity"

Encode ==
    /\ codecPc = "entity"
    /\ requestData' = createEntityRequest(entity)
    /\ codecPc' = "encoded"
    /\ UNCHANGED <<entity, responseData, parsedEntity, clientVars>>

EchoBack ==
    /\ codecPc = "encoded"
    /\ responseData' = Echo(requestData)
    /\ codecPc' = "echoed"
    /\ UNCHANGED <<entity, requestData, parsedEntity, clientVars>>

Decode ==
    /\ codecPc = "echoed"
    /\ parsedEntity' = parseEntityResponse(responseData)
    /\ codecPc' = "decoded"
    /\ UNCHANGED <<entity, requestData, responseData, clientVars>>

NextCodec == Encode \/ EchoBack \/ Decode

SpecCodec == InitCodec /\ [][NextCodec]_vars

---------------------------------------------------------------------------
(* C1: for every Entity e the body of createEntityRequest(e) has exactly   *)
(* the keys address, blockchain, name, required_fields and the keys of     *)
(* e.content; every content key maps to its content value (also when it    *)
(* is one of the four fixed keys), and a fixed key that is no content key  *)
(* maps to the entity's address, blockchain, name or requiredFields.       *)
C1_BodyIsFixedOverwrittenByContent ==
    codecPc # "entity" =>
        LET content == Prop(entity, "content").v
            body == requestData.v
        IN /\ requestData.t = "object"
           /\ Keys(body) = FixedKeys \cup Keys(content)
           /\ \A i, j \in DOMAIN body : body[i][1] = body[j][1] => i = j
           /\ \A k \in Keys(content) : Get(body, k) = Get(content, k)
           /\ "address" \notin Keys(content)
                => Get(body, "address") = Prop(entity, "address")
           /\ "blockchain" \notin Keys(content)
                => Get(body, "blockchain") = Prop(entity, "blockchain")
           /\ "name" \notin Keys(content)
                => Get(body, "name") = Prop(entity, "name")
           /\ "required_fields" \notin Keys(content)
                => Get(body, "required_fields") = Prop(entity, "requiredFields")

(* C1's case: content = {name: "override"} and the body's name is          *)
(* "override", not the entity's name.                                      *)
C1_Witness ==
    /\ codecPc = "encoded"
    /\ Prop(entity, "content").v = << <<"name", JStr("override")>> >>
    /\ Prop(entity, "name") = JStr("Terminus")
    /\ Get(requestData.v, "name") = JStr("override")

(* C2 as stated: the echo of every Entity decodes to that Entity. *)
C2_RoundTripEveryEntity ==
    codecPc = "decoded" => parsedEntity = entity

(* C2, amended: for every Entity whose content has none of the keys        *)
(* address, blockchain, name, required_fields, parseEntityResponse of the  *)
(* echo of createEntityRequest(e) has e's address, blockchain, name,       *)
(* requiredFields and content.                                             *)
C2_RoundTripWithoutCollision ==
    (codecPc = "decoded" /\ Keys(Prop(entity, "content").v) \cap FixedKeys = {})
        => /\ Prop(parsedEntity, "address") = Prop(entity, "address")
           /\ Prop(parsedEntity, "blockchain") = Prop(entity, "blockchain")
           /\ Prop(parsedEntity, "name") = Prop(entity, "name")
           /\ Prop(parsedEntity, "requiredFields") = Prop(entity, "requiredFields")
           /\ Prop(parsedEntity, "content") = Prop(entity, "content")

(* C2's case: an Entity with a non-empty, collision-free content map and   *)
(* two required fields has gone through encode, echo and decode.           *)
C2_Witness ==
    /\ codecPc = "decoded"
    /\ Prop(entity, "content").v = << <<"note", JArr(<<JNum(1155), JNum(721)>>)>> >>
    /\ Len(Prop(entity, "requiredFields").v) = 2
    /\ parsedEntity = entity

---------------------------------------------------------------------------
(* Helpers of the claims below.                                            *)

(* The requests a call has handed to fetch. *)
RequestsOf(i) == SelectSeq(network, LAMBDA n : n.call = i)

IsSearchOf(i, collectionId, requiredFields, content, limit, offset) ==
    /\ calls[i].op = "search"
    /\ calls[i].args.collectionId = collectionId
    /\ calls[i].args.requiredFields = requiredFields
    /\ calls[i].args.content = content
    /\ calls[i].args.limit = limit
    /\ calls[i].args.offset = offset

BaseOf(i) == Text(clients[calls[i].client].apiUrl)

(* C3 as stated: search("c1", ["a=1"], ["b=2"]) with default limit and     *)
(* offset requests /collections/c1/search with the query string            *)
(* q=required_field%3Da%3D1+secondary_field%3Db%3D2.                       *)
C3_QueryStringAsStated ==
    \A i \in DOMAIN calls :
        IsSearchOf(i, "c1", <<TermA>>, <<TermB>>, None, None)
            => /\ Len(RequestsOf(i)) = 1
               /\ RequestsOf(i)[1].request.url =
                    BaseOf(i) \o "/collections/c1/search"
                        \o "?q=required_field%3Da%3D1+secondary_field%3Db%3D2"

(* The segments of a search, one per term, the requiredFields terms first. *)
C3_Segments(requiredFields, content) ==
    [k \in 1..(Len(requiredFields) + Len(content)) |->
        IF k <= Len(requiredFields)
        THEN "required_field=" \o encodeURIComponent(requiredFields[k])
        ELSE "secondary_field=" \o encodeURIComponent(content[k - Len(requiredFields)])]

(* The first k segments with a '+' between neighbours. *)
RECURSIVE C3_PlusJoined(_, _)
C3_PlusJoined(segments, k) ==
    IF k = 0 THEN ""
    ELSE IF k = 1 THEN segments[1]
    ELSE C3_PlusJoined(segments, k - 1) \o "+" \o segments[k]

(* C3, amended: search("c1", ["a=1"], ["b=2"]) with default limit and      *)
(* offset requests /collections/c1/search with the query string            *)
(* q=required_field=a%3D1+secondary_field=b%3D2 (only the term is          *)
(* percent-encoded, the '=' after required_field and secondary_field is    *)
(* literal); in general the q value is one segment per requiredFields      *)
(* term followed by one segment per content term, in input order, joined   *)
(* by a literal '+'.                                                       *)
C3_QueryString ==
    \A i \in DOMAIN calls :
        (calls[i].op = "search" /\ RequestsOf(i) # <<>>)
            => LET a == calls[i].args
                   segs == C3_Segments(a.requiredFields, a.content)
                   req == RequestsOf(i)[1].request
               IN /\ req.verb = "GET"
                  /\ req.url = BaseOf(i) \o "/collections/" \o a.collectionId
                                \o "/search?q=" \o C3_PlusJoined(segs, Len(segs))
                  /\ IsSearchOf(i, "c1", <<TermA>>, <<TermB>>, None, None)
                        => req.url = BaseOf(i) \o "/collections/c1/search"
                            \o "?q=required_field=a%3D1+secondary_field=b%3D2"
                  /\ IsSearchOf(i, "c1", <<TermC, TermA>>, <<>>, None, None)
                        => req.url = BaseOf(i) \o "/collections/c1/search"
                            \o "?q=required_field=x%20%2B+required_field=a%3D1"

(* C3's case: the call of the example, on the default base URL. *)
C3_Witness ==
    \E i \in DOMAIN calls :
        /\ IsSearchOf(i, "c1", <<TermA>>, <<TermB>>, None, None)
        /\ calls[i].client = "A"
        /\ RequestsOf(i) # <<>>
        /\ RequestsOf(i)[1].request.url =
            "https://api.moonstream.to/entity/collections/c1/search"
                \o "?q=required_field=a%3D1+secondary_field=b%3D2"

NegativeArgument(i) ==
    \/ calls[i].args.limit # None /\ calls[i].args.limit[1] < 0
    \/ calls[i].args.offset # None /\ calls[i].args.offset[1] < 0

(* C4: a call of search with limit < 0 or offset < 0 fails with an error   *)
(* and hands no request to fetch, whatever its other arguments.            *)
C4_NegativeFailsBeforeFetch ==
    \A i \in DOMAIN calls :
        (calls[i].op = "search" /\ NegativeArgument(i))
            => /\ calls[i].pc = "rejected"
               /\ calls[i].outcome # None
               /\ calls[i].outcome[1].kind = "throw"
               /\ calls[i].response = None
               /\ RequestsOf(i) = <<>>

(* C4's case: search with a good limit and offset -1 has been called. *)
C4_Witness ==
    \E i \in DOMAIN calls :
        /\ IsSearchOf(i, "c1", <<TermA>>, <<TermB>>, Some(5), Some(-1))
        /\ calls[i].pc = "rejected"
        /\ network = <<>>

EndsWithSlash(chars) == chars # <<>> /\ chars[Len(chars)] = "/"

(* chars is text with every trailing slash removed and nothing else. *)
IsStripped(chars, text) ==
    /\ ~EndsWithSlash(chars)
    /\ Len(chars) <= Len(text)
    /\ chars = SubSeq(text, 1, Len(chars))
    /\ \A k \in (Len(chars) + 1)..Len(text) : text[k] = "/"

(* C5 as stated: apiUrl never ends with '/'; a supplied URL has its        *)
(* trailing slashes removed and is otherwise unchanged; with no URL        *)
(* supplied the base is https://api.moonstream.to/entity.                  *)
C5_BaseUrlAsStated ==
    \A c \in Clients :
        clients[c].constructed
            => /\ ~EndsWithSlash(clients[c].apiUrl)
               /\ clients[c].given # None
                    => IsStripped(clients[c].apiUrl, clients[c].given[1])
               /\ clients[c].given = None
                    => Text(clients[c].apiUrl) = "https://api.moonstream.to/entity"

(* C5, amended: apiUrl never ends with '/'; a supplied non-empty URL has   *)
(* its trailing slashes removed and is otherwise unchanged; with no URL,   *)
(* or the empty string, supplied the base is                               *)
(* https://api.moonstream.to/entity.                                       *)
C5_BaseUrl ==
    \A c \in Clients :
        clients[c].constructed
            => /\ ~EndsWithSlash(clients[c].apiUrl)
               /\ (clients[c].given # None /\ clients[c].given[1] # <<>>)
                    => IsStripped(clients[c].apiUrl, clients[c].given[1])
               /\ (clients[c].given = None \/ clients[c].given = Some(<<>>))
                    => Text(clients[c].apiUrl) = "https://api.moonstream.to/entity"

(* C5's case: constructed with "https://x/y///", the base is               *)
(* "https://x/y", and a request has gone out on it.                        *)
C5_Witness ==
    /\ clients["A"].constructed
    /\ clients["A"].given = Some(ExampleUrl)
    /\ Text(clients["A"].apiUrl) = "https://x/y"
    /\ network # <<>>
    /\ network[1].request.url = "https://x/y/collections"

(* C6: every request handed to fetch carries Authorization: Bearer         *)
(* <accessToken of the client> and Content-Type: application/json.         *)
C6_StandardHeaders ==
    \A k \in DOMAIN network :
        LET h == network[k].request.headers
            cl == clients[calls[network[k].call].client]
        IN /\ {"Authorization", "Content-Type"} \subseteq DOMAIN h
           /\ h["Authorization"] = "Bearer " \o cl.accessToken
           /\ h["Content-Type"] = "application/json"

(* C6's case: requests of two operations on two clients are out. *)
C6_Witness ==
    /\ Len(network) = 2
    /\ calls[1].op = "updateEntity" /\ calls[1].client = "A"
    /\ calls[2].op = "search" /\ calls[2].client = "B"
    /\ network[1].request.headers["Authorization"] = "Bearer tokenA"
    /\ network[2].request.headers["Authorization"] = "Bearer tokenB"

HasResponse(i) == calls[i].response # None

Settled(i) == calls[i].pc \in {"resolved", "rejected"}

IsWireArray(val) ==
    val.t = "array" /\ \A k \in DOMAIN val.v : val.v[k].t = "object"

(* C7: getEntity issues GET /collections/{collectionId}/entities/          *)
(* {entityId}; for a response that is an array of n wire entities it       *)
(* returns an array of n Entities in the same order, element k having      *)
(* address, blockchain, name of wire element k, its required_fields as     *)
(* requiredFields, its secondary_fields as content, and no other key.      *)
C7_GetEntityDecodesArray ==
    \A i \in DOMAIN calls :
        calls[i].op = "getEntity"
            => /\ Len(RequestsOf(i)) = 1
               /\ RequestsOf(i)[1].request.verb = "GET"
               /\ RequestsOf(i)[1].request.body = None
               /\ RequestsOf(i)[1].request.url =
                    BaseOf(i) \o "/collections/" \o calls[i].args.collectionId
                        \o "/entities/" \o calls[i].args.entityId
               /\ (Settled(i) /\ HasResponse(i) /\ calls[i].response[1].wellFormed
                     /\ IsWireArray(calls[i].response[1].json))
                    => LET wire == calls[i].response[1].json.v
                           out == calls[i].outcome[1]
                       IN /\ calls[i].pc = "resolved"
                          /\ out.kind = "return"
                          /\ out.value.t = "array"
                          /\ Len(out.value.v) = Len(wire)
                          /\ \A k \in DOMAIN wire :
                                LET e == out.value.v[k]
                                IN /\ e.t = "object"
                                   /\ Keys(e.v) = {"address", "blockchain", "name",
                                                   "requiredFields", "content"}
                                   /\ Prop(e, "address") = Prop(wire[k], "address")
                                   /\ Prop(e, "blockchain") = Prop(wire[k], "blockchain")
                                   /\ Prop(e, "name") = Prop(wire[k], "name")
                                   /\ Prop(e, "requiredFields")
                                        = Prop(wire[k], "required_fields")
                                   /\ Prop(e, "content")
                                        = Prop(wire[k], "secondary_fields")

(* C7's case: getEntity has returned the two entities of a two-element     *)
(* response, in the order of the response.                                 *)
C7_Witness ==
    \E i \in DOMAIN calls :
        /\ calls[i].op = "getEntity"
        /\ calls[i].pc = "resolved"
        /\ calls[i].response[1].json = JArr(<<Wire1, Wire2>>)
        /\ Len(calls[i].outcome[1].value.v) = 2
        /\ Prop(calls[i].outcome[1].value.v[1], "name") = JStr("Dead address")
        /\ Prop(calls[i].outcome[1].value.v[2], "name") = JStr("Terminus")
        /\ Prop(calls[i].outcome[1].value.v[2], "content")
              = JObj(<< <<"proxy", JBool(TRUE)>> >>)

(* C8: every call hands at most one request to fetch, and exactly one      *)
(* unless it fails the argument check of search; nothing is sent again     *)
(* after a transport failure, a parse failure or a non-2xx response, and   *)
(* every request belongs to one call.                                      *)
C8_OneRequestPerCall ==
    /\ \A i \in DOMAIN calls :
          /\ Len(RequestsOf(i)) <= 1
          /\ Len(RequestsOf(i)) = 1
                <=> ~(calls[i].op = "search" /\ NegativeArgument(i))
    /\ \A k \in DOMAIN network : network[k].call \in DOMAIN calls
    /\ Len(network) = Cardinality({i \in DOMAIN calls : RequestsOf(i) # <<>>})

(* C8's case: one call has failed in transport and another has got a 404   *)
(* with a body that is not JSON; each has sent its one request.            *)
C8_Witness ==
    /\ Len(calls) = 2
    /\ calls[1].pc = "rejected" /\ ~HasResponse(1)
    /\ calls[2].pc = "rejected" /\ HasResponse(2)
    /\ calls[2].response[1].status = 404
    /\ ~calls[2].response[1].wellFormed
    /\ Len(network) = 2

(* The parsed bodies on which an operation's own code throws. *)
ShapeAccessFails(op, json) ==
    CASE op = "createCollection" -> json.t = "null"
      [] op = "listCollections" ->
            \/ json.t = "null"
            \/ Prop(json, "collections").t # "array"
            \/ \E k \in DOMAIN Prop(json, "collections").v :
                    Prop(json, "collections").v[k].t = "null"
      [] op = "getEntity" ->
            \/ json.t # "array"
            \/ \E k \in DOMAIN json.v : json.v[k].t = "null"
      [] OTHER -> FALSE

(* C9: the status of a response plays no part: two calls of one operation  *)
(* whose responses have the same body end the same way, whatever the two   *)
(* statuses; and a call that has sent its request fails only when the      *)
(* transport fails (no response), the body is not JSON, or the             *)
(* operation's access to the parsed body throws.                           *)
C9_StatusIgnored ==
    /\ \A i, j \in DOMAIN calls :
          (/\ Settled(i) /\ Settled(j)
           /\ HasResponse(i) /\ HasResponse(j)
           /\ calls[i].op = calls[j].op
           /\ calls[i].response[1].wellFormed = calls[j].response[1].wellFormed
           /\ calls[i].response[1].json = calls[j].response[1].json)
            => /\ calls[i].pc = calls[j].pc
               /\ calls[i].outcome = calls[j].outcome
    /\ \A i \in DOMAIN calls :
          (Settled(i) /\ RequestsOf(i) # <<>>)
            => (calls[i].pc = "rejected"
                  <=> \/ ~HasResponse(i)
                      \/ ~calls[i].response[1].wellFormed
                      \/ ShapeAccessFails(calls[i].op, calls[i].response[1].json))

(* C9's case: two calls of createEntity got the same body, one with 200    *)
(* and one with 404, and both returned it.                                 *)
C9_Witness ==
    /\ Len(calls) = 2
    /\ calls[1].op = "createEntity" /\ calls[2].op = "createEntity"
    /\ calls[1].pc = "resolved" /\ calls[2].pc = "resolved"
    /\ calls[1].response[1].status = 200
    /\ calls[2].response[1].status = 404
    /\ calls[1].response[1].json = ErrorBody
    /\ calls[2].response[1].json = ErrorBody
    /\ calls[1].outcome = Some(Return(ErrorBody))
    /\ calls[2].outcome = calls[1].outcome

(* The fields each instance was constructed with. *)
AsConstructed(c) ==
    IF c = "A" THEN constructor("tokenA", None)
    ELSE constructor("tokenB", Some(ExampleUrl))

(* The request an operation sends when it runs alone on a client. *)
RequestAlone(op, args, cl) ==
    CASE op = "createCollection" -> createCollectionRequest(cl, args)
      [] op = "listCollections" -> listCollectionsRequest(cl, args)
      [] op = "createEntity" -> createEntityRequestOf(cl, args)
      [] op = "getEntity" -> getEntityRequest(cl, args)
      [] op = "deleteEntity" -> deleteEntityRequest(cl, args)
      [] op = "updateEntity" -> updateEntityRequest(cl, args)
      [] op = "search" -> searchRequest(cl, args)

(* C10: no operation writes accessToken or apiUrl, so under every          *)
(* interleaving of calls, on one instance and across instances, the        *)
(* request of each call is built from its own arguments and the fields     *)
(* the instance was constructed with, as if the call had run alone.        *)
C10_RequestsIndependent ==
    /\ \A c \in Clients : clients[c] = AsConstructed(c)
    /\ \A k \in DOMAIN network :
          LET call == calls[network[k].call]
          IN network[k].request
                = RequestAlone(call.op, call.args, AsConstructed(call.client))

(* C10's case: two calls on instance B are in flight at once, the first    *)
(* with its response, the second still waiting for fetch.                  *)
C10_Witness ==
    /\ Len(calls) = 2
    /\ calls[1].client = "B" /\ calls[2].client = "B"
    /\ calls[1].op = "listCollections" /\ calls[2].op = "listCollections"
    /\ calls[1].pc = "awaitJson" /\ calls[2].pc = "awaitFetch"
    /\ network[2].request.url = "https://x/y/collections"

Accepted(arg) == arg = None \/ arg[1] >= 0

Falsy(arg) == arg = None \/ arg[1] = 0

(* C11: in search an omitted or falsy (0) limit becomes 10 and an omitted  *)
(* or falsy offset becomes 0, and neither is transmitted: with accepted    *)
(* (omitted or non-negative) limit and offset the call sends one request,  *)
(* whose verb, URL, headers and body are those of the call with the same   *)
(* collectionId, requiredFields and content and no limit and offset.       *)
C11_LimitOffsetNotSent ==
    \A i \in DOMAIN calls :
        calls[i].op = "search"
            => LET a == calls[i].args
                   segs == C3_Segments(a.requiredFields, a.content)
               IN /\ calls[i].locals.limit
                        = Some(IF Falsy(a.limit) THEN 10 ELSE a.limit[1])
                  /\ calls[i].locals.offset
                        = Some(IF Falsy(a.offset) THEN 0 ELSE a.offset[1])
                  /\ (Accepted(a.limit) /\ Accepted(a.offset))
                        => /\ Len(RequestsOf(i)) = 1
                           /\ RequestsOf(i)[1].request
                                = searchRequest(clients[calls[i].client],
                                    [a EXCEPT !.limit = None, !.offset = None])
                           /\ RequestsOf(i)[1].request
                                = [verb |-> "GET",
                                   url |-> BaseOf(i) \o "/collections/"
                                            \o a.collectionId \o "/search?q="
                                            \o C3_PlusJoined(segs, Len(segs)),
                                   headers |->
                                     ("Authorization" :> "Bearer "
                                        \o clients[calls[i].client].accessToken)
                                     @@ ("Content-Type" :> "application/json"),
                                   body |-> None]

(* C11's case: search called with limit 0 and offset 5: the limit is 10,   *)
(* the offset 5, and the request is the one of the call without them.      *)
C11_Witness ==
    \E i \in DOMAIN calls :
        /\ IsSearchOf(i, "c1", <<TermA>>, <<TermB>>, Some(0), Some(5))
        /\ calls[i].client = "A"
        /\ calls[i].locals = [limit |-> Some(10), offset |-> Some(5)]
        /\ RequestsOf(i) # <<>>
        /\ RequestsOf(i)[1].request.url =
            "https://api.moonstream.to/entity/collections/c1/search"
                \o "?q=required_field=a%3D1+secondary_field=b%3D2"

===========================================================================
